---- MODULE Spec2Model ----
(***************************************************************************)
(* rs-p8s: an actix-web service that aggregates request counts and latency *)
(* observations into two prometheus_client metric families and exposes     *)
(* them on /metrics (src/src/main.rs).                                     *)
(*                                                                         *)
(* Every actix worker thread runs one handler at a time; the handlers have *)
(* no await point of their own, so a handler is a sequence of steps of one *)
(* worker, interleaved with the steps of the other workers.  The steps are *)
(* the synchronisation points of the calls the handlers make:              *)
(*   Family::get_or_create  read lock + lookup, else write lock + insert   *)
(*                          (entry().or_insert_with) + downgrade to read   *)
(*   Counter::inc           one atomic fetch_add                           *)
(*   Histogram::observe     inner write lock; sum += v; count += 1;        *)
(*                          first bucket with upper_bound >= v += 1        *)
(*   encode                 per family in registration order: read lock on *)
(*                          the family map, one entry after the other      *)
(*                          (Counter::get / Histogram::get under the inner *)
(*                          read lock), release                            *)
(***************************************************************************)
EXTENDS Integers, Sequences, FiniteSets, TLC

\* Bounds of the model: the worker threads, and the requests accepted in a run
\* of all four handlers (Spec), of the count handlers and the scrape
\* (SpecCount), of the latency handler and the scrape (SpecHist).
NWorkers == 2
MaxReqs == 2
MaxCountReqs == 4
MaxObsReqs == 3

\* exponential_buckets(10.0, 5.0, 5)
BucketStart == 10
BucketFactor == 5
BucketCount == 5

Workers == 1..NWorkers
NoWorker == 0

\* Request bodies the clients send (AppInfo, LatencyInfo).
ScriptNames == {"test-script", "job"}
Namespaces == {"test"}
Apps == {"test"}
Types == {"http"}
Modules == {"db"}
Statuses == {0, -1}
Durations == {-3, 7, 10, 10000}

Method == {"Get", "Post"}

AppInfo == [script_name : ScriptNames, namespace : Namespaces, app : Apps]

LatencyInfo == [duration : Durations, type : Types, module : Modules, status : Statuses]

AppLabels == [method : Method, script_name : ScriptNames, namespace : Namespaces, app : Apps]

LatencyLabels == [method : Method, type : Types, module : Modules, status : Statuses]

NoLabels == [app |-> {}, lat |-> {}]
NoDocument == [returned |-> FALSE]
NoRequest == [handler |-> "none"]

\* Mutex<AppState> unlocked and poisoned: a thread panicked holding its guard.
Poisoned == -1

\* History: the last metrics_handler panicked and returned nothing.
Panicked == [returned |-> FALSE, panicked |-> TRUE]

VARIABLES
    registry,       \* AppState.registry: the registered families, in order
    requests,       \* CountMetrics.requests: the map AppLabels -> Counter value
    requests_hig,   \* HisgMetrics.requests_hig: the map LatencyLabels -> Histogram
    readers,        \* per family: the workers holding a read guard on its map
    inner,          \* per histogram: the worker holding its inner write lock
    mutex,          \* Mutex<AppState>: the worker holding it
    pc,             \* per worker: the step it is at
    req,            \* per worker: the request it handles (handler, labels, value)
    body,           \* per worker: the response body built so far
    fam,            \* per worker: index in registry of the family being encoded
    todo,           \* per worker: entries of that family not yet encoded
    budget,         \* requests the run still accepts
    issued,         \* history: inc_requests calls started, per AppLabels
    misses,         \* history: get_or_create calls of inc_requests that took
                    \*          the slow path, per AppLabels
    observed,       \* history: observations that took the inner lock, per
                    \*          LatencyLabels and value
    h0,             \* history: per worker, the histogram as it was when the
                    \*          worker took its inner lock
    quiet,          \* history: per worker in metrics_handler, the label sets with
                    \*          no operation in progress at its start nor started
                    \*          since
    prev,           \* history: the document the last metrics_handler returned
                    \*          and its quiet label sets; none once an operation
                    \*          has started after it
    constructed,    \* history: calls of a family's constructor, per family
                    \*          (app, lat) and label set
    atstart         \* history: per worker in metrics_handler, the requests
                    \*          map as it was when the handler started

\* The metrics, the locks, a worker's locals, the history.
metrics == <<registry, requests, requests_hig>>
locks == <<readers, inner, mutex>>
locals == <<pc, req, body, fam, todo>>
history == <<issued, misses, observed, h0, quiet, prev, constructed, atstart>>

vars == <<metrics, locks, locals, budget, history>>

----------------------------------------------------------------------------
\* Labels: derived PartialEq/Eq/Hash compare every field.

\* A comparison of AppLabels that leaves the method out.
AppLabelsEqNoMethod(a, b) ==
    /\ a.script_name = b.script_name
    /\ a.namespace = b.namespace
    /\ a.app = b.app

AppLabelsEq(a, b) ==
    /\ a.method = b.method
    /\ a.script_name = b.script_name
    /\ a.namespace = b.namespace
    /\ a.app = b.app

LatencyLabelsEq(a, b) ==
    /\ a.method = b.method
    /\ a.type = b.type
    /\ a.module = b.module
    /\ a.status = b.status

\* The keys of map m that compare equal to k.
FindApp(m, k) == {e \in DOMAIN m : AppLabelsEq(e, k)}

FindLatency(m, k) == {e \in DOMAIN m : LatencyLabelsEq(e, k)}

----------------------------------------------------------------------------
\* Histogram::new(exponential_buckets(10.0, 5.0, 5))

RECURSIVE Pow(_, _)
Pow(b, e) == IF e = 0 THEN 1 ELSE b * Pow(b, e - 1)

\* start * factor^i for i in 0..length-1
exponential_buckets(start, factor, length) ==
    [i \in 1..length |-> start * Pow(factor, i - 1)]

\* An upper bound: a finite value, or f64::MAX (max = TRUE).
Finite(v) == [max |-> FALSE, v |-> v]
F64Max == [max |-> TRUE, v |-> 0]

\* buckets.chain(once(f64::MAX)).map(|upper_bound| (upper_bound, 0))
NewHistogram ==
    LET bs == exponential_buckets(BucketStart, BucketFactor, BucketCount)
    IN  [sum |-> 0, count |-> 0,
         buckets |-> [i \in 1..(Len(bs) + 1) |->
                        [upper_bound |-> IF i <= Len(bs) THEN Finite(bs[i]) ELSE F64Max,
                         value |-> 0]]]

\* Counter::default()
NewCounter == 0

\* A bucket search with a strict comparison: a value on a bound goes one
\* bucket up.
BoundGt(ub, v) == ub.max \/ ub.v > v

\* upper_bound >= &v
BoundGeq(ub, v) == ub.max \/ ub.v >= v

\* buckets.iter_mut().enumerate().find(|(_, (upper_bound, _))| upper_bound >= &v):
\* the index of the first such bucket, 0 when there is none.
FirstBucket(buckets, v) ==
    LET hit == {i \in 1..Len(buckets) : BoundGeq(buckets[i].upper_bound, v)}
    IN  IF hit = {} THEN 0 ELSE CHOOSE i \in hit : \A j \in hit : i <= j

\* A cast of the duration through the type of status: body.duration as i8 as f64
\* keeps the low 8 bits.
AsI8AsF64(d) == ((d + 128) % 256) - 128

\* body.duration as f64: exact for every |duration| < 2^53, which covers Durations.
AsF64(d) == d


----------------------------------------------------------------------------
\* The state after main() has built the families and the registry.

Start ==
    /\ registry = << [name |-> "requests", help |-> "Count of requests"],
                     [name |-> "latency", help |-> "Record latency"] >>
    /\ requests = << >>
    /\ requests_hig = << >>
    /\ readers = [f \in {"requests", "latency"} |-> {}]
    /\ inner = [l \in LatencyLabels |-> NoWorker]
    /\ mutex = NoWorker
    /\ pc = [w \in Workers |-> "idle"]
    /\ req = [w \in Workers |-> NoRequest]
    /\ body = [w \in Workers |-> << >>]
    /\ fam = [w \in Workers |-> 0]
    /\ todo = [w \in Workers |-> {}]
    /\ issued = [l \in AppLabels |-> 0]
    /\ misses = [l \in AppLabels |-> 0]
    /\ observed = [l \in LatencyLabels |-> [d \in Durations |-> 0]]
    /\ h0 = [w \in Workers |-> NewHistogram]
    /\ quiet = [w \in Workers |-> NoLabels]
    /\ prev = NoDocument
    /\ constructed = [app |-> [l \in AppLabels |-> 0],
                      lat |-> [l \in LatencyLabels |-> 0]]
    /\ atstart = [w \in Workers |-> << >>]

----------------------------------------------------------------------------
\* Which family a handler works on, and the entries of it that match its labels.

FamilyName(w) == IF req[w].handler = "duration_handler" THEN "latency" ELSE "requests"

Found(w) ==
    IF FamilyName(w) = "requests"
    THEN FindApp(requests, req[w].labels)
    ELSE FindLatency(requests_hig, req[w].labels)

\* The operations that have started and not yet returned.
Mutating(w) == pc[w] \in {"get_read", "get_write", "inc", "observe", "obs_count", "obs_bucket"}

InProgress(l) == {w \in Workers : Mutating(w) /\ req[w].labels = l}

\* A handler starts: the request is taken by an idle worker.
Accept(w, r) ==
    /\ pc[w] = "idle"
    /\ budget > 0
    /\ budget' = budget - 1
    /\ req' = [req EXCEPT ![w] = r]

\* History: an operation on l that starts ends the quiet of l for every scrape
\* under way, and the last document is no longer one of the current state.
Disturb(l) ==
    /\ quiet' = [x \in Workers |->
                   [app |-> quiet[x].app \ {l}, lat |-> quiet[x].lat \ {l}]]
    /\ prev' = NoDocument

\* pub async fn test_handler: the fixed label set, then inc_requests.
test_handler(w) ==
    LET al == [method |-> "Get", namespace |-> "test",
               script_name |-> "test-script", app |-> "test"]
    IN  /\ Accept(w, [handler |-> "test_handler", labels |-> al, value |-> 0])
        /\ pc' = [pc EXCEPT ![w] = "get_read"]
        /\ issued' = [issued EXCEPT ![al] = @ + 1]
        /\ Disturb(al)
        /\ UNCHANGED <<metrics, locks, body, fam, todo, misses, observed, h0,
                       constructed, atstart>>

\* A script_handler that labels its requests with the method of test_handler.
script_handler_as_get(w, info) ==
    LET al == [method |-> "Get", namespace |-> info.namespace,
               script_name |-> info.script_name, app |-> info.app]
    IN  /\ Accept(w, [handler |-> "script_handler", labels |-> al, value |-> 0])
        /\ pc' = [pc EXCEPT ![w] = "get_read"]
        /\ issued' = [issued EXCEPT ![al] = @ + 1]
        /\ Disturb(al)
        /\ UNCHANGED <<metrics, locks, body, fam, todo, misses, observed, h0,
                       constructed, atstart>>

\* pub async fn script_handler: method Post and the body's fields, then inc_requests.
script_handler(w, info) ==
    LET al == [method |-> "Post", namespace |-> info.namespace,
               script_name |-> info.script_name, app |-> info.app]
    IN  /\ Accept(w, [handler |-> "script_handler", labels |-> al, value |-> 0])
        /\ pc' = [pc EXCEPT ![w] = "get_read"]
        /\ issued' = [issued EXCEPT ![al] = @ + 1]
        /\ Disturb(al)
        /\ UNCHANGED <<metrics, locks, body, fam, todo, misses, observed, h0,
                       constructed, atstart>>

\* A duration_handler that turns a negative duration down.
duration_handler_non_negative(w, info) ==
    LET ll == [method |-> "Post", type |-> info.type,
               module |-> info.module, status |-> info.status]
    IN  /\ info.duration >= 0
        /\ Accept(w, [handler |-> "duration_handler", labels |-> ll,
                      value |-> AsF64(info.duration)])
        /\ pc' = [pc EXCEPT ![w] = "get_read"]
        /\ Disturb(ll)
        /\ UNCHANGED <<metrics, locks, body, fam, todo, issued, misses, observed, h0,
                       constructed, atstart>>

\* pub async fn duration_handler: method Post and the body's fields, then
\* hisg_request with body.duration as f64.
duration_handler(w, info) ==
    LET ll == [method |-> "Post", type |-> info.type,
               module |-> info.module, status |-> info.status]
    IN  /\ Accept(w, [handler |-> "duration_handler", labels |-> ll,
                      value |-> AsF64(info.duration)])
        /\ pc' = [pc EXCEPT ![w] = "get_read"]
        /\ Disturb(ll)
        /\ UNCHANGED <<metrics, locks, body, fam, todo, issued, misses, observed, h0,
                       constructed, atstart>>

----------------------------------------------------------------------------
\* Family::get_or_create

\* A write lock that does not wait for the readers of the map.
CanWriteAnyway(f) == TRUE

\* RwLock::write(): granted when nobody holds a guard on the family's map.
CanWrite(f) == readers[f] = {}

\* A get_or_create whose slow path inserts without looking again: an entry
\* made in the meantime is replaced by a new metric.
InsertOverwrite(m, found, k, new) ==
    (k :> new) @@ [e \in DOMAIN m \ found |-> m[e]]

\* An or_insert_with that takes every entry for vacant.
VacantAlways(found) == TRUE

\* Entry::Vacant: no key of the map compares equal to the label set.
Vacant(found) == found = {}

\* entry(label_set.clone()).or_insert_with(constructor): the constructor is
\* called for a vacant entry only; an entry that is there is kept as it is.
OrInsertWith(m, found, k, new) ==
    IF Vacant(found) THEN (k :> new) @@ m ELSE m

\* The fast path: under the read lock, look the label set up; the guard is
\* kept when the entry is there and dropped when it is not.
GetOrCreateRead(w) ==
    /\ pc[w] = "get_read"
    /\ IF Found(w) # {}
       THEN /\ readers' = [readers EXCEPT ![FamilyName(w)] = @ \cup {w}]
            /\ pc' = [pc EXCEPT ![w] =
                        IF FamilyName(w) = "requests" THEN "inc" ELSE "observe"]
            /\ UNCHANGED misses
       ELSE /\ pc' = [pc EXCEPT ![w] = "get_write"]
            /\ misses' = IF FamilyName(w) = "requests"
                         THEN [misses EXCEPT ![req[w].labels] = @ + 1]
                         ELSE misses
            /\ UNCHANGED readers
    /\ UNCHANGED <<metrics, inner, mutex, req, body, fam, todo, budget, issued,
                   observed, h0, quiet, prev, constructed, atstart>>

\* The slow path: write lock, or_insert_with, downgrade to a read guard.
GetOrCreateWrite(w) ==
    /\ pc[w] = "get_write"
    /\ CanWrite(FamilyName(w))
    /\ IF FamilyName(w) = "requests"
       THEN /\ requests' = OrInsertWith(requests, Found(w), req[w].labels, NewCounter)
            /\ pc' = [pc EXCEPT ![w] = "inc"]
            /\ UNCHANGED requests_hig
       ELSE /\ requests_hig' =
                   OrInsertWith(requests_hig, Found(w), req[w].labels, NewHistogram)
            /\ pc' = [pc EXCEPT ![w] = "observe"]
            /\ UNCHANGED requests
    /\ readers' = [readers EXCEPT ![FamilyName(w)] = @ \cup {w}]
    /\ constructed' =
          IF Vacant(Found(w))
          THEN [constructed EXCEPT
                  ![IF FamilyName(w) = "requests" THEN "app" ELSE "lat"][req[w].labels] = @ + 1]
          ELSE constructed
    /\ UNCHANGED <<registry, inner, mutex, req, body, fam, todo, budget, issued,
                   misses, observed, h0, quiet, prev, atstart>>

----------------------------------------------------------------------------
\* CountMetrics::inc_requests: get_or_create(app_labels).inc()

\* Counter::inc: AtomicU64::fetch_add(1)
FetchAdd(v) == v + 1

\* The increment of the entry the guard points to; the guard is dropped at the
\* end of the statement and the handler returns its text ("okay", "post_okay").
inc_requests(w) ==
    /\ pc[w] = "inc"
    /\ LET e == CHOOSE e \in Found(w) : TRUE
       IN  requests' = [requests EXCEPT ![e] = FetchAdd(@)]
    /\ readers' = [readers EXCEPT !["requests"] = @ \ {w}]
    /\ pc' = [pc EXCEPT ![w] = "idle"]
    /\ req' = [req EXCEPT ![w] = NoRequest]
    /\ UNCHANGED <<registry, requests_hig, inner, mutex, body, fam, todo, budget,
                   history>>

----------------------------------------------------------------------------
\* HisgMetrics::hisg_request: get_or_create(ll).observe(d)

\* RwLock::write() on the histogram's inner state.
CanLockInner(e) == inner[e] = NoWorker

\* let mut inner = self.inner.write(); inner.sum += v;
ObserveSum(w) ==
    /\ pc[w] = "observe"
    /\ LET e == CHOOSE e \in Found(w) : TRUE
       IN  /\ CanLockInner(e)
           /\ inner' = [inner EXCEPT ![e] = w]
           /\ requests_hig' = [requests_hig EXCEPT ![e].sum = @ + req[w].value]
           /\ h0' = [h0 EXCEPT ![w] = requests_hig[e]]
           /\ observed' = [observed EXCEPT ![e][req[w].value] = @ + 1]
    /\ pc' = [pc EXCEPT ![w] = "obs_count"]
    /\ UNCHANGED <<registry, requests, readers, mutex, req, body, fam, todo,
                   budget, issued, misses, quiet, prev, constructed, atstart>>

\* inner.count += 1;
ObserveCount(w) ==
    /\ pc[w] = "obs_count"
    /\ LET e == CHOOSE e \in Found(w) : TRUE
       IN  requests_hig' = [requests_hig EXCEPT ![e].count = @ + 1]
    /\ pc' = [pc EXCEPT ![w] = "obs_bucket"]
    /\ UNCHANGED <<registry, requests, locks, req, body, fam, todo, budget, history>>

\* An observe that keeps cumulative counts: every bucket with
\* upper_bound >= v is incremented.
BucketsAfterCumulative(buckets, v) ==
    [i \in 1..Len(buckets) |->
        IF BoundGeq(buckets[i].upper_bound, v)
        THEN [buckets[i] EXCEPT !.value = @ + 1]
        ELSE buckets[i]]

\* The first bucket with upper_bound >= v is incremented, if there is one.
BucketsAfter(buckets, v) ==
    LET i == FirstBucket(buckets, v)
    IN  IF i = 0 THEN buckets ELSE [buckets EXCEPT ![i].value = @ + 1]

\* match first_bucket { Some(..) => *value += 1, None => .. }; both guards are
\* dropped at the end of the statement and the handler returns its text
\* ("post_latency_okay").
ObserveBucket(w) ==
    /\ pc[w] = "obs_bucket"
    /\ LET e == CHOOSE e \in Found(w) : TRUE
       IN  /\ requests_hig' = [requests_hig EXCEPT
                                 ![e].buckets = BucketsAfter(@, req[w].value)]
           /\ inner' = [inner EXCEPT ![e] = NoWorker]
    /\ readers' = [readers EXCEPT !["latency"] = @ \ {w}]
    /\ pc' = [pc EXCEPT ![w] = "idle"]
    /\ req' = [req EXCEPT ![w] = NoRequest]
    /\ h0' = [h0 EXCEPT ![w] = NewHistogram]
    /\ UNCHANGED <<registry, requests, mutex, body, fam, todo, budget, issued,
                   misses, observed, quiet, prev, constructed, atstart>>

----------------------------------------------------------------------------
\* metrics_handler: state.lock().unwrap(); encode(&mut body, &state.registry)

\* The map of the family registered under name.
FamilyMap(name) == IF name = "requests" THEN requests ELSE requests_hig

\* A Histogram::get that reads the fields without taking the inner lock.
CanReadUnlocked(e) == TRUE

\* RwLock::read() on a histogram's inner state (Histogram::get).
CanReadInner(e) == inner[e] = NoWorker

\* The bucket lines of a histogram: cumulative counts, le = upper bound.
RECURSIVE Cumulative(_, _)
Cumulative(buckets, i) ==
    IF i = 0 THEN 0 ELSE Cumulative(buckets, i - 1) + buckets[i].value

EncodeBuckets(buckets) ==
    [i \in 1..Len(buckets) |->
        [le |-> buckets[i].upper_bound, value |-> Cumulative(buckets, i)]]

\* The lines of one label set of a family: the counter's total, or the
\* histogram's _sum, _count and _bucket lines.
EncodeMetric(name, k) ==
    IF name = "requests"
    THEN [name |-> name, labels |-> k, total |-> requests[k]]
    ELSE [name |-> name, labels |-> k, sum |-> requests_hig[k].sum,
          count |-> requests_hig[k].count,
          bucket |-> EncodeBuckets(requests_hig[k].buckets)]

\* A metrics_handler that counts its own requests in the requests family
\* before it encodes.
metrics_handler_counting(w) ==
    LET al == [method |-> "Get", namespace |-> "test",
               script_name |-> "test-script", app |-> "test"]
    IN  /\ Accept(w, [handler |-> "metrics_handler"])
        /\ pc' = [pc EXCEPT ![w] = "lock"]
        /\ quiet' = [quiet EXCEPT ![w] =
                       [app |-> {l \in AppLabels : InProgress(l) = {}},
                        lat |-> {l \in LatencyLabels : InProgress(l) = {}}]]
        /\ requests' = IF al \in DOMAIN requests
                       THEN [requests EXCEPT ![al] = @ + 1]
                       ELSE (al :> 1) @@ requests
        /\ UNCHANGED <<registry, requests_hig, locks, body, fam, todo, issued,
                       misses, observed, h0, prev, constructed>>
        /\ atstart' = [atstart EXCEPT ![w] = requests]

\* The request is taken by idle worker w; nothing is locked yet.
metrics_handler(w) ==
    /\ Accept(w, [handler |-> "metrics_handler"])
    /\ pc' = [pc EXCEPT ![w] = "lock"]
    /\ quiet' = [quiet EXCEPT ![w] =
                   [app |-> {l \in AppLabels : InProgress(l) = {}},
                    lat |-> {l \in LatencyLabels : InProgress(l) = {}}]]
    /\ UNCHANGED <<metrics, locks, body, fam, todo, issued, misses, observed, h0, prev,
                   constructed>>
    /\ atstart' = [atstart EXCEPT ![w] = requests]

\* A metrics_handler that registers the requests family again once it holds
\* the state.
StateLockRegistering(w) ==
    /\ pc[w] = "lock"
    /\ mutex = NoWorker
    /\ mutex' = w
    /\ pc' = [pc EXCEPT ![w] = "encode"]
    /\ registry' = Append(registry, [name |-> "requests", help |-> "Count of requests"])
    /\ UNCHANGED <<requests, requests_hig, readers, inner, req, body, fam, todo,
                   budget, history>>

\* let state = state.lock().unwrap(); let mut body = String::new();
StateLock(w) ==
    /\ pc[w] = "lock"
    /\ mutex = NoWorker
    /\ mutex' = w
    /\ pc' = [pc EXCEPT ![w] = "encode"]
    /\ UNCHANGED <<metrics, readers, inner, req, body, fam, todo, budget, history>>

\* The guards on family maps worker w holds after it has left the family it
\* was walking (none before the first) for the family registered under name.
NextGuard(w, name) ==
    LET left == IF fam[w] = 0 THEN readers
                ELSE [readers EXCEPT ![registry[fam[w]].name] = @ \ {w}]
    IN  [left EXCEPT ![name] = @ \cup {w}]

\* The walk of a family is over, or none has begun: the read guard of the
\* family walked is dropped, and the next registered family begins with its
\* descriptor (# HELP, # TYPE) and the read lock on its map, whose entries are
\* to be walked.
EncodeFamily(w) ==
    /\ pc[w] = "encode"
    /\ todo[w] = {}
    /\ fam[w] < Len(registry)
    /\ LET d == registry[fam[w] + 1]
       IN  /\ body' = [body EXCEPT ![w] = Append(@, [descriptor |-> d.name, help |-> d.help])]
           /\ readers' = NextGuard(w, d.name)
           /\ todo' = [todo EXCEPT ![w] = DOMAIN FamilyMap(d.name)]
    /\ fam' = [fam EXCEPT ![w] = @ + 1]
    /\ UNCHANGED <<metrics, inner, mutex, pc, req, budget, history>>

\* One entry of the map, in the map's own order: its lines are appended.
EncodeEntry(w) ==
    /\ pc[w] = "encode"
    /\ \E k \in todo[w] :
          /\ registry[fam[w]].name = "latency" => CanReadInner(k)
          /\ body' = [body EXCEPT ![w] = Append(@, EncodeMetric(registry[fam[w]].name, k))]
          /\ todo' = [todo EXCEPT ![w] = @ \ {k}]
    /\ UNCHANGED <<metrics, locks, pc, req, fam, budget, history>>

\* What encode has written once the last family is walked: the document is
\* closed with # EOF.
Document(w) == Append(body[w], [eof |-> TRUE])

\* A metrics_handler whose guard on the state is never dropped.
MetricsReturnKeepsState(w) ==
    /\ pc[w] = "encode"
    /\ todo[w] = {}
    /\ fam[w] = Len(registry)
    /\ readers' = [readers EXCEPT ![registry[fam[w]].name] = @ \ {w}]
    /\ pc' = [pc EXCEPT ![w] = "idle"]
    /\ req' = [req EXCEPT ![w] = NoRequest]
    /\ body' = [body EXCEPT ![w] = << >>]
    /\ fam' = [fam EXCEPT ![w] = 0]
    /\ prev' = [returned |-> TRUE, body |-> Document(w), quiet |-> quiet[w]]
    /\ quiet' = [quiet EXCEPT ![w] = NoLabels]
    /\ UNCHANGED <<metrics, inner, mutex, todo, budget, issued, misses, observed, h0,
                   constructed>>
    /\ atstart' = [atstart EXCEPT ![w] = << >>]

\* The walk of the last family is over: its read guard is dropped, encode
\* returns, and Ok(HttpResponse::Ok()...body(body)) moves body into the
\* response; the mutex guard is dropped on return.
MetricsReturn(w) ==
    /\ pc[w] = "encode"
    /\ todo[w] = {}
    /\ fam[w] = Len(registry)
    /\ readers' = [readers EXCEPT ![registry[fam[w]].name] = @ \ {w}]
    /\ mutex' = NoWorker
    /\ pc' = [pc EXCEPT ![w] = "idle"]
    /\ req' = [req EXCEPT ![w] = NoRequest]
    /\ body' = [body EXCEPT ![w] = << >>]
    /\ fam' = [fam EXCEPT ![w] = 0]
    /\ prev' = [returned |-> TRUE, body |-> Document(w), quiet |-> quiet[w]]
    /\ quiet' = [quiet EXCEPT ![w] = NoLabels]
    /\ UNCHANGED <<metrics, inner, todo, budget, issued, misses, observed, h0,
                   constructed>>
    /\ atstart' = [atstart EXCEPT ![w] = << >>]

\* An encode whose error is dropped: the handler answers with what was written
\* until the write that failed.
EncodeFailsIgnored(w) ==
    /\ pc[w] = "encode"
    /\ readers' = IF fam[w] = 0 THEN readers
                  ELSE [readers EXCEPT ![registry[fam[w]].name] = @ \ {w}]
    /\ mutex' = NoWorker
    /\ pc' = [pc EXCEPT ![w] = "idle"]
    /\ req' = [req EXCEPT ![w] = NoRequest]
    /\ body' = [body EXCEPT ![w] = << >>]
    /\ fam' = [fam EXCEPT ![w] = 0]
    /\ todo' = [todo EXCEPT ![w] = {}]
    /\ prev' = [returned |-> TRUE, body |-> body[w], quiet |-> quiet[w]]
    /\ quiet' = [quiet EXCEPT ![w] = NoLabels]
    /\ UNCHANGED <<metrics, inner, budget, issued, misses, observed, h0, constructed>>
    /\ atstart' = [atstart EXCEPT ![w] = << >>]

\* encode(&mut body, &state.registry).unwrap() when a write of encode returns
\* Err: unwrap panics, the stack unwinds, the family guard and the state guard
\* are dropped, the mutex is left poisoned and no response is built.
EncodeFails(w) ==
    /\ pc[w] = "encode"
    /\ readers' = IF fam[w] = 0 THEN readers
                  ELSE [readers EXCEPT ![registry[fam[w]].name] = @ \ {w}]
    /\ mutex' = Poisoned
    /\ pc' = [pc EXCEPT ![w] = "idle"]
    /\ req' = [req EXCEPT ![w] = NoRequest]
    /\ body' = [body EXCEPT ![w] = << >>]
    /\ fam' = [fam EXCEPT ![w] = 0]
    /\ todo' = [todo EXCEPT ![w] = {}]
    /\ prev' = Panicked
    /\ quiet' = [quiet EXCEPT ![w] = NoLabels]
    /\ UNCHANGED <<metrics, inner, budget, issued, misses, observed, h0, constructed>>
    /\ atstart' = [atstart EXCEPT ![w] = << >>]

\* state.lock().unwrap() on the poisoned mutex: lock() returns Err, unwrap
\* panics, the guard inside the error is dropped and no response is built.
LockPoisoned(w) ==
    /\ pc[w] = "lock"
    /\ mutex = Poisoned
    /\ pc' = [pc EXCEPT ![w] = "idle"]
    /\ req' = [req EXCEPT ![w] = NoRequest]
    /\ prev' = Panicked
    /\ quiet' = [quiet EXCEPT ![w] = NoLabels]
    /\ UNCHANGED <<metrics, locks, body, fam, todo, budget, issued, misses, observed,
                   h0, constructed>>
    /\ atstart' = [atstart EXCEPT ![w] = << >>]

----------------------------------------------------------------------------
\* The steps of the handlers under way.
CountStep(w) ==
    \/ GetOrCreateRead(w)
    \/ GetOrCreateWrite(w)
    \/ inc_requests(w)

ObserveStep(w) ==
    \/ GetOrCreateRead(w)
    \/ GetOrCreateWrite(w)
    \/ ObserveSum(w)
    \/ ObserveCount(w)
    \/ ObserveBucket(w)

ScrapeStep(w) ==
    \/ StateLock(w)
    \/ EncodeFamily(w)
    \/ EncodeEntry(w)
    \/ MetricsReturn(w)

\* The server: every route of main(), on every worker.
Init == Start /\ budget = MaxReqs

Next ==
    \E w \in Workers :
        \/ test_handler(w)
        \/ \E info \in AppInfo : script_handler(w, info)
        \/ \E info \in LatencyInfo : duration_handler(w, info)
        \/ metrics_handler(w)
        \/ CountStep(w)
        \/ ObserveStep(w)
        \/ ScrapeStep(w)

Spec == Init /\ [][Next]_vars

\* The server with its worker threads scheduled fairly: a worker whose handler
\* has a step it can take (it waits for no lock another holds) takes it.
HandlerStep(w) == CountStep(w) \/ ObserveStep(w) \/ ScrapeStep(w)

\* The bodies sent to /duration_handler in the fair runs: which locks an
\* observation takes, and when, does not depend on the value observed.
FairLatencyInfo == {i \in LatencyInfo : i.duration = 7}

NextFair ==
    \E w \in Workers :
        \/ test_handler(w)
        \/ \E info \in AppInfo : script_handler(w, info)
        \/ \E info \in FairLatencyInfo : duration_handler(w, info)
        \/ metrics_handler(w)
        \/ CountStep(w)
        \/ ObserveStep(w)
        \/ ScrapeStep(w)

SpecFair ==
    /\ Init
    /\ [][NextFair]_vars
    /\ \A w \in Workers : WF_vars(HandlerStep(w))

\* The server when a write of encode may return Err.  (A write to a String
\* returns Ok, so these are runs of the handler's code, not of the service as
\* it is deployed.)
NextFail ==
    \/ Next
    \/ \E w \in Workers : EncodeFails(w)
    \/ \E w \in Workers : LockPoisoned(w)

SpecFail == Init /\ [][NextFail]_vars

----------------------------------------------------------------------------
\* The boundary: the routes of main() and the web::Json extractors of the
\* handlers' signatures.

\* The fields serde requires of a body (derive(Deserialize), no default).
AppInfoFields == {"script_name", "namespace", "app"}

LatencyInfoFields == {"duration", "type", "module", "status"}

\* The JSON objects clients send: the members of AppInfo or LatencyInfo, all
\* of them or all but one, with or without a member "method".
MethodNames == {"Post", "Delete"}

Restrict(o, S) == [f \in S |-> o[f]]

Members(fields) ==
    {G \cup m : G \in {fields} \cup {fields \ {f} : f \in fields},
                m \in {{}, {"method"}}}

AppBodies ==
    {Restrict(o, S) :
        o \in [script_name : ScriptNames, namespace : Namespaces, app : Apps,
               method : MethodNames],
        S \in Members(AppInfoFields)}

LatencyBodies ==
    {Restrict(o, S) :
        o \in [duration : {7}, type : Types, module : Modules, status : Statuses,
               method : MethodNames],
        S \in Members(LatencyInfoFields)}

HttpMethods == {"GET", "POST", "DELETE"}

\* The requests clients send: every body with the method of its route, and
\* the bodies that are exactly an AppInfo or a LatencyInfo with every method.
Requests ==
    [path : {"/script_handler"}, http : {"POST"}, body : AppBodies]
        \cup [path : {"/script_handler"}, http : HttpMethods,
               body : {o \in AppBodies : DOMAIN o = AppInfoFields}]
        \cup [path : {"/duration_handler"}, http : {"POST"}, body : LatencyBodies]
        \cup [path : {"/duration_handler"}, http : HttpMethods,
               body : {o \in LatencyBodies : DOMAIN o = LatencyInfoFields}]
        \cup [path : {"/metrics", "/test_handler"}, http : HttpMethods, body : {<< >>}]

\* App::new().service(web::resource(path).route(web::get()/web::post().to(handler)))
Routes ==
    { [path |-> "/metrics", http |-> "GET", to |-> "metrics_handler"],
      [path |-> "/test_handler", http |-> "GET", to |-> "test_handler"],
      [path |-> "/script_handler", http |-> "POST", to |-> "script_handler"],
      [path |-> "/duration_handler", http |-> "POST", to |-> "duration_handler"] }

\* The handler a request is routed to, "none" when no route takes its path
\* and method.
Routed(r) ==
    LET hit == {x \in Routes : x.path = r.path /\ x.http = r.http}
    IN  IF hit = {} THEN "none" ELSE (CHOOSE x \in hit : TRUE).to

\* A deserializer whose fields all have defaults (#[serde(default)]).
FromJsonDefault(o, fields) ==
    [ok |-> TRUE,
     value |-> [f \in fields |->
                  IF f \in DOMAIN o THEN o[f]
                  ELSE IF f \in {"duration", "status"} THEN 0 ELSE ""]]

\* web::Json<T>: serde's derived Deserialize takes the members named as the
\* fields of T, fails when one is missing and skips every other member.
FromJson(o, fields) ==
    IF fields \subseteq DOMAIN o
    THEN [ok |-> TRUE, value |-> [f \in fields |-> o[f]]]
    ELSE [ok |-> FALSE]

\* The request is answered with an error by the router or the extractor; no
\* handler runs.
Reject(w) ==
    /\ pc[w] = "idle"
    /\ budget > 0
    /\ budget' = budget - 1
    /\ UNCHANGED <<metrics, locks, locals, history>>

\* Request r arrives at idle worker w.
Dispatch(w, r) ==
    LET to == Routed(r)
    IN  CASE to = "metrics_handler" -> metrics_handler(w)
          [] to = "test_handler" -> test_handler(w)
          [] to = "script_handler" ->
                LET j == FromJson(r.body, AppInfoFields)
                IN  IF j.ok THEN script_handler(w, j.value) ELSE Reject(w)
          [] to = "duration_handler" ->
                LET j == FromJson(r.body, LatencyInfoFields)
                IN  IF j.ok THEN duration_handler(w, j.value) ELSE Reject(w)
          [] OTHER -> Reject(w)

\* The server behind its boundary.
NextBoundary ==
    \E w \in Workers :
        \/ \E r \in Requests : Dispatch(w, r)
        \/ CountStep(w)
        \/ ObserveStep(w)
        \/ ScrapeStep(w)

SpecBoundary == Init /\ [][NextBoundary]_vars

\* The server receiving only /test_handler, /script_handler and /metrics.
InitCount == Start /\ budget = MaxCountReqs

NextCount ==
    \E w \in Workers :
        \/ test_handler(w)
        \/ \E info \in AppInfo : script_handler(w, info)
        \/ metrics_handler(w)
        \/ CountStep(w)
        \/ ScrapeStep(w)

SpecCount == InitCount /\ [][NextCount]_vars

\* The server receiving only /duration_handler and /metrics.
InitHist == Start /\ budget = MaxObsReqs

NextHist ==
    \E w \in Workers :
        \/ \E info \in LatencyInfo : duration_handler(w, info)
        \/ metrics_handler(w)
        \/ ObserveStep(w)
        \/ ScrapeStep(w)

SpecHist == InitHist /\ [][NextHist]_vars

----------------------------------------------------------------------------
\* Properties of the counter family.

TestLabels == [method |-> "Get", namespace |-> "test",
               script_name |-> "test-script", app |-> "test"]

\* C1: once every increment issued against a label set has completed, its
\* counter equals the number of increments issued: none is lost, however the
\* handlers interleave.
C1_NoLostIncrement ==
    \A l \in AppLabels :
        (issued[l] > 0 /\ InProgress(l) = {}) =>
            (l \in DOMAIN requests /\ requests[l] = issued[l])

\* Three increments of one label set have completed and its counter is 3.
C1_Witness ==
    \E l \in AppLabels :
        /\ issued[l] = 3
        /\ InProgress(l) = {}
        /\ l \in DOMAIN requests
        /\ requests[l] = 3

\* C2: when the first two increments of a label set both find it absent (both
\* take the slow path of get_or_create), the family ends with exactly one entry
\* for it, of value 2.
C2_OneEntryValueTwo ==
    \A l \in AppLabels :
        (misses[l] = 2 /\ issued[l] = 2 /\ InProgress(l) = {}) =>
            /\ Cardinality(FindApp(requests, l)) = 1
            /\ l \in DOMAIN requests
            /\ requests[l] = 2

\* Two increments raced on an absent label set, both have completed, and the
\* one entry holds 2.
C2_Witness ==
    \E l \in AppLabels :
        /\ misses[l] = 2
        /\ issued[l] = 2
        /\ InProgress(l) = {}
        /\ Cardinality(FindApp(requests, l)) = 1
        /\ requests[l] = 2

\* The lines of the family registered under name in the sequence doc.
FamilyLines(doc, name) ==
    SelectSeq(doc, LAMBDA x : "name" \in DOMAIN x /\ x.name = name)

\* The lines of label set l among them.
LinesOf(doc, name, l) ==
    SelectSeq(FamilyLines(doc, name), LAMBDA x : x.labels = l)

\* encode has walked every family for worker w: body[w] is the document, but
\* for its closing # EOF.
ScrapeDone(w) == pc[w] = "encode" /\ todo[w] = {} /\ fam[w] = Len(registry)

\* C4: in the document being written, every family walked so far has each
\* label set at most once, and the family being walked has every label set
\* its map tracks either encoded once or still to come: when its walk ends
\* the encoded label sets are exactly those of the map, also while other
\* workers insert.
C4_EachLabelSetOnce ==
    \A w \in Workers :
        pc[w] = "encode" =>
            \A i \in 1..fam[w] :
                LET name == registry[i].name
                    ls == FamilyLines(body[w], name)
                    done == {ls[j].labels : j \in 1..Len(ls)}
                IN  /\ \A j, k \in 1..Len(ls) : j # k => ls[j].labels # ls[k].labels
                    /\ i = fam[w] =>
                          /\ done \cup todo[w] = DOMAIN FamilyMap(name)
                          /\ done \cap todo[w] = {}

\* The walk of the requests family has ended with two label sets encoded
\* while another worker waits to insert a third.
C4_Witness ==
    \E w \in Workers :
        /\ pc[w] = "encode"
        /\ fam[w] = 1
        /\ todo[w] = {}
        /\ Cardinality(DOMAIN requests) = 2
        /\ Len(FamilyLines(body[w], "requests")) = 2
        /\ \E v \in Workers \ {w} : pc[v] = "get_write" /\ Found(v) = {}

\* The counter of label set l: its value, or nothing when it has no entry.
CounterOf(l) == IF l \in DOMAIN requests THEN <<requests[l]>> ELSE << >>

\* C7: no step of an increment of label set L1 (lookup, insertion, increment)
\* changes or creates the counter of a label set L2 that differs from L1 in
\* some field.
C7_OtherCountersUnchanged ==
    [][\A w \in Workers :
          (Mutating(w) /\ FamilyName(w) = "requests" /\ pc'[w] # pc[w]) =>
              \A l2 \in AppLabels \ {req[w].labels} :
                  CounterOf(l2)' = CounterOf(l2)]_vars

\* Two label sets that differ in the method alone have both been incremented.
C7_Witness ==
    LET post == [TestLabels EXCEPT !.method = "Post"]
    IN  /\ TestLabels \in DOMAIN requests
        /\ post \in DOMAIN requests
        /\ requests[TestLabels] >= 1
        /\ requests[post] >= 1
        /\ InProgress(TestLabels) = {}
        /\ InProgress(post) = {}

\* C8: a scrape that began when no increment of a label set was in progress,
\* and during which none began, reports that label set once with the number
\* of increments completed before it (no line, or 0, when there were none).
C8_ScrapeAfterIncrements ==
    \A w \in Workers :
        ScrapeDone(w) =>
            \A l \in quiet[w].app :
                LET ls == LinesOf(body[w], "requests", l)
                IN  IF issued[l] = 0
                    THEN \A j \in 1..Len(ls) : ls[j].total = 0
                    ELSE Len(ls) = 1 /\ ls[1].total = issued[l]

\* test_handler has completed three times before the scrape, which reports 3.
C8_Witness ==
    \E w \in Workers :
        /\ ScrapeDone(w)
        /\ TestLabels \in quiet[w].app
        /\ issued[TestLabels] = 3
        /\ Len(LinesOf(body[w], "requests", TestLabels)) = 1
        /\ LinesOf(body[w], "requests", TestLabels)[1].total = 3

\* The lines of a document, their order aside.
SameLines(a, b) ==
    /\ Len(a) = Len(b)
    /\ {a[i] : i \in 1..Len(a)} = {b[i] : i \in 1..Len(b)}

AllLabels == [app |-> AppLabels, lat |-> LatencyLabels]

\* A scrape has walked every family with no operation in progress at its
\* start nor since, after another scrape of which the same is true and with no
\* operation between the two.
AfterQuietScrape(w) ==
    /\ ScrapeDone(w)
    /\ quiet[w] = AllLabels
    /\ prev.returned
    /\ prev.quiet = AllLabels

C9_SameDocument ==
    \A w \in Workers : AfterQuietScrape(w) => SameLines(Document(w), prev.body)

\* A step of worker w in metrics_handler.
ScrapeStepOf(w) ==
    /\ req'[w].handler = "metrics_handler" \/ req[w].handler = "metrics_handler"
    /\ <<pc[w], req[w], body[w], fam[w], todo[w]>>' # <<pc[w], req[w], body[w], fam[w], todo[w]>>

C9_ScrapeChangesNothing ==
    \A w \in Workers : ScrapeStepOf(w) => UNCHANGED <<registry, requests, requests_hig>>

\* C9: two scrapes with no increment or observe from the start of the first
\* to the end of the second give documents with the same lines, their order
\* aside; and no step of a scrape changes a counter, a histogram, a map or the
\* registry.
C9_ScrapeIdempotent ==
    /\ []C9_SameDocument
    /\ [][C9_ScrapeChangesNothing]_vars

\* The second of two such scrapes has walked every family, the counter of the
\* test label set standing at 2.
C9_Witness ==
    \E w \in Workers :
        /\ AfterQuietScrape(w)
        /\ TestLabels \in DOMAIN requests
        /\ requests[TestLabels] = 2
        /\ Len(LinesOf(prev.body, "requests", TestLabels)) = 1

\* C10: a counter is created with value 0, and no step of any handler removes
\* a counter or lowers its value.
C10_CounterMonotonic ==
    [][/\ \A l \in DOMAIN requests :
             l \in DOMAIN requests' /\ requests'[l] >= requests[l]
       /\ \A l \in DOMAIN requests' \ DOMAIN requests : requests'[l] = 0]_vars

\* A counter stands at 1 while another increment of it is under way.
C10_Witness ==
    \E l \in DOMAIN requests :
        /\ requests[l] = 1
        /\ \E w \in Workers : pc[w] = "inc" /\ req[w].labels = l

----------------------------------------------------------------------------
\* Properties of the histogram family.

\* The histogram entries of the document worker w is writing.
HistogramLines(w) ==
    {body[w][i] : i \in {j \in 1..Len(body[w]) :
                            "sum" \in DOMAIN body[w][j]}}

RECURSIVE SumOver(_, _)
\* The sum of f over the finite set S.
SumOver(f, S) ==
    IF S = {} THEN 0
    ELSE LET x == CHOOSE x \in S : TRUE
         IN  f[x] + SumOver(f, S \ {x})

RECURSIVE SubCollections(_, _)
\* The sub-collections of the observations o (a count per value of S): the
\* functions s on S with s[d] <= o[d] for every d.
SubCollections(o, S) ==
    IF S = {} THEN {<<>>}
    ELSE LET x == CHOOSE x \in S : TRUE
         IN  {(x :> n) @@ s : n \in 0..o[x], s \in SubCollections(o, S \ {x})}

\* The bucket the claims give a value: the first of the bounds 10, 50, 250,
\* 1250, 6250 that is >= v, the sixth (overflow) bucket beyond them.
ClaimedBounds == <<10, 50, 250, 1250, 6250>>

ClaimedBucket(v) ==
    IF v <= 10 THEN 1
    ELSE IF v <= 50 THEN 2
    ELSE IF v <= 250 THEN 3
    ELSE IF v <= 1250 THEN 4
    ELSE IF v <= 6250 THEN 5
    ELSE 6

\* The observations s (a count per value) explain the lines e: _count is
\* their number, _sum their sum, and the cumulative bucket of each bound counts
\* those that the claimed rule puts at or below it.
Explains(s, e) ==
    /\ e.count = SumOver(s, Durations)
    /\ e.sum = SumOver([d \in Durations |-> d * s[d]], Durations)
    /\ \A i \in 1..Len(e.bucket) :
          e.bucket[i].value =
              SumOver([d \in Durations |-> IF ClaimedBucket(d) <= i THEN s[d] ELSE 0],
                      Durations)

\* C3: no document holds a partial update of a histogram: the _bucket, _sum
\* and _count lines of every label set are those of one and the same set of
\* observations made on it (the +Inf bucket equals _count, and _sum is the
\* sum of exactly those observations).
C3_NoTornHistogram ==
    \A w \in Workers :
        \A e \in HistogramLines(w) :
            /\ e.bucket[Len(e.bucket)].value = e.count
            /\ \E s \in SubCollections(observed[e.labels], Durations) :
                  Explains(s, e)

\* A document holds the lines of a histogram with one observation while
\* another worker is in the middle of an observe on the same histogram.
C3_Witness ==
    \E w \in Workers :
        \E e \in HistogramLines(w) :
            /\ e.count = 1
            /\ inner[e.labels] \in Workers \ {w}
            /\ requests_hig[e.labels].count = 1
            /\ requests_hig[e.labels].sum # e.sum

\* The histograms h and g differ in exactly one bucket count, by one.
OneBucketMore(h, g) ==
    /\ Len(g.buckets) = Len(h.buckets)
    /\ \E i \in 1..Len(h.buckets) :
          /\ g.buckets[i].value = h.buckets[i].value + 1
          /\ \A j \in 1..Len(h.buckets) :
                /\ g.buckets[j].upper_bound = h.buckets[j].upper_bound
                /\ j # i => g.buckets[j].value = h.buckets[j].value

\* C5: an observe of value v, from taking the histogram's lock to releasing
\* it, increases exactly one bucket count by 1, the sum by v and the count by
\* 1, and leaves the rest of the histogram and every other histogram as
\* they were.
C5_ObserveEffect ==
    [][\A w \in Workers :
          (pc[w] = "obs_bucket" /\ pc'[w] = "idle") =>
              LET e == req[w].labels
                  h == h0[w]
                  g == requests_hig'[e]
              IN  /\ g.sum = h.sum + req[w].value
                  /\ g.count = h.count + 1
                  /\ OneBucketMore(h, g)
                  /\ DOMAIN requests_hig' = DOMAIN requests_hig
                  /\ \A l \in DOMAIN requests_hig \ {e} :
                        requests_hig'[l] = requests_hig[l]]_vars

\* A histogram has taken the observations 7 and 10000: count 2, sum 10007.
C5_Witness ==
    \E l \in DOMAIN requests_hig :
        /\ inner[l] = NoWorker
        /\ observed[l][7] = 1
        /\ observed[l][10000] = 1
        /\ requests_hig[l].count = 2
        /\ requests_hig[l].sum = 10007

\* C6: every histogram has the upper bounds 10, 50, 250, 1250, 6250 and one
\* overflow bucket, and each completed observation is counted in the first
\* bucket whose bound is >= its value (10 in bucket 10), in the overflow
\* bucket beyond 6250.
C6_Buckets ==
    \A l \in DOMAIN requests_hig :
        LET b == requests_hig[l].buckets
        IN  /\ Len(b) = Len(ClaimedBounds) + 1
            /\ \A i \in 1..Len(ClaimedBounds) :
                  b[i].upper_bound = Finite(ClaimedBounds[i])
            /\ b[Len(b)].upper_bound.max
            /\ inner[l] = NoWorker =>
                  \A i \in 1..Len(b) :
                      b[i].value =
                          SumOver([d \in Durations |->
                                     IF ClaimedBucket(d) = i THEN observed[l][d] ELSE 0],
                                  Durations)

\* A histogram has taken 7, 10 and 10000: two in bucket 10, one in overflow.
C6_Witness ==
    \E l \in DOMAIN requests_hig :
        /\ inner[l] = NoWorker
        /\ observed[l][7] = 1
        /\ observed[l][10] = 1
        /\ observed[l][10000] = 1
        /\ requests_hig[l].buckets[1].value = 2
        /\ requests_hig[l].buckets[6].value = 1

----------------------------------------------------------------------------
\* Properties of the families' maps and of the registry.

\* Every label set of a map was constructed once, no other label set ever was,
\* an operation past its get_or_create finds its label set in the map, and a
\* label set is in a map only once an operation on it has started.
C11_Tracked ==
    /\ \A l \in AppLabels :
          /\ constructed.app[l] = IF l \in DOMAIN requests THEN 1 ELSE 0
          /\ l \in DOMAIN requests => issued[l] > 0
    /\ \A l \in LatencyLabels :
          constructed.lat[l] = IF l \in DOMAIN requests_hig THEN 1 ELSE 0
    /\ \A w \in Workers :
          /\ pc[w] = "inc" => req[w].labels \in DOMAIN requests
          /\ pc[w] \in {"observe", "obs_count", "obs_bucket"} =>
                req[w].labels \in DOMAIN requests_hig

\* No step removes a label set from a map or constructs again the metric of a
\* label set that is in the map.
C11_Grows ==
    /\ DOMAIN requests \subseteq DOMAIN requests'
    /\ DOMAIN requests_hig \subseteq DOMAIN requests_hig'
    /\ \A l \in DOMAIN requests : constructed'.app[l] = constructed.app[l]
    /\ \A l \in DOMAIN requests_hig : constructed'.lat[l] = constructed.lat[l]

\* C11: in each family the metric of a label set is constructed exactly once,
\* the first time the label set is observed, and an entry once created is
\* never removed or replaced: the label sets of a family only grow.
C11_ConstructedOnce ==
    /\ []C11_Tracked
    /\ [][C11_Grows]_vars

\* Two observations have been made on one histogram, constructed once.
C11_Witness ==
    \E l \in DOMAIN requests_hig :
        /\ constructed.lat[l] = 1
        /\ requests_hig[l].count = 2
        /\ InProgress(l) = {}

\* C12: the registry holds exactly the two families registered at startup,
\* the counter family "requests" and the histogram family "latency", in every
\* reachable state: no handler adds, removes or replaces a family; only the
\* label sets of the families' maps change.
C12_RegistryFixed ==
    /\ registry = << [name |-> "requests", help |-> "Count of requests"],
                     [name |-> "latency", help |-> "Record latency"] >>
    /\ DOMAIN FamilyMap(registry[1].name) \subseteq AppLabels
    /\ \A l \in DOMAIN FamilyMap(registry[1].name) :
          FamilyMap(registry[1].name)[l] \in Nat
    /\ DOMAIN FamilyMap(registry[2].name) \subseteq LatencyLabels
    /\ \A l \in DOMAIN FamilyMap(registry[2].name) :
          Len(FamilyMap(registry[2].name)[l].buckets) = BucketCount + 1

\* A scrape holds the state and has reached the second family while the
\* requests family has an entry.
C12_Witness ==
    \E w \in Workers :
        /\ pc[w] = "encode"
        /\ mutex = w
        /\ fam[w] = 2
        /\ requests # << >>

\* C13: no operation blocks for ever: under fair scheduling every handler that
\* has started returns, however increments, observations and scrapes
\* interleave; the scrape's mutex and the locks of get_or_create do not
\* deadlock.
C13_EveryOperationCompletes ==
    \A w \in Workers : (pc[w] # "idle") ~> (pc[w] = "idle")

\* A scrape holds the state and the read guard of the requests family while
\* an increment waits for the write lock on that family's map.
C13_Witness ==
    \E w \in Workers, v \in Workers :
        /\ pc[w] = "encode"
        /\ mutex = w
        /\ fam[w] > 0
        /\ registry[fam[w]].name = "requests"
        /\ w \in readers["requests"]
        /\ pc[v] = "get_write"
        /\ FamilyName(v) = "requests"

----------------------------------------------------------------------------
\* Properties of the scrape's result.

\* The lines of doc that open a family.
Descriptors(doc) == SelectSeq(doc, LAMBDA x : "descriptor" \in DOMAIN x)

\* doc is a whole document of the current state: every registered family in
\* registration order, each label set at most once and only label sets of
\* the family's map (all of them for the family walked last), no counter
\* beyond its value, and the closing # EOF.
Complete(doc) ==
    /\ Len(doc) > 0
    /\ doc[Len(doc)] = [eof |-> TRUE]
    /\ Descriptors(doc) =
          [i \in 1..Len(registry) |->
              [descriptor |-> registry[i].name, help |-> registry[i].help]]
    /\ \A i \in 1..Len(registry) :
          LET name == registry[i].name
              ls == FamilyLines(doc, name)
              done == {ls[j].labels : j \in 1..Len(ls)}
          IN  /\ \A j, k \in 1..Len(ls) : j # k => ls[j].labels # ls[k].labels
              /\ done \subseteq DOMAIN FamilyMap(name)
              /\ i = Len(registry) => done = DOMAIN FamilyMap(name)
              /\ name = "requests" =>
                    \A j \in 1..Len(ls) : ls[j].total <= requests[ls[j].labels]

\* metrics_handler ends for worker w in this step.
ScrapeEnds(w) == pc[w] \in {"lock", "encode"} /\ pc'[w] = "idle"

\* C14: a scrape never returns a partial, truncated or stale document: a body
\* is returned only by a scrape that holds the state and whose encode has
\* walked every family, and it is the whole document; a scrape that could not
\* take the state, or whose encode did not get to its end, ends in a panic
\* and returns no document.
C14_WholeDocumentOrFailure ==
    [][\A w \in Workers :
          ScrapeEnds(w) =>
              /\ prev'.returned =>
                    /\ mutex = w
                    /\ ScrapeDone(w)
                    /\ prev'.body = Document(w)
                    /\ Complete(prev'.body)
              /\ (pc[w] = "lock" \/ ~ScrapeDone(w)) => prev' = Panicked]_vars

\* A scrape has panicked in encode with the requests family half written and
\* left the mutex poisoned, and no document was returned.
C14_Witness ==
    /\ mutex = Poisoned
    /\ prev = Panicked
    /\ requests # << >>
    /\ \A w \in Workers : pc[w] = "idle"

----------------------------------------------------------------------------
\* Properties of the boundary.

\* The step answers a request with an error: no handler has started and the
\* metrics, the locks and the workers are as they were.
Rejected == UNCHANGED <<metrics, locks, locals, history>>

\* A required member of the body is missing.
MissingField(r) ==
    \/ r.path = "/script_handler" /\ ~(AppInfoFields \subseteq DOMAIN r.body)
    \/ r.path = "/duration_handler" /\ ~(LatencyInfoFields \subseteq DOMAIN r.body)

\* The body names a method outside the closed set {Get, Post}.
MethodOutside(r) == "method" \in DOMAIN r.body /\ r.body.method \notin Method

\* Every label set stored in either family has a method in {Get, Post} and
\* every field of its schema, with a value a client sent.
C15_StoredLabelSets ==
    /\ DOMAIN requests \subseteq AppLabels
    /\ DOMAIN requests_hig \subseteq LatencyLabels

\* C15 as stated: a payload with a required field missing, or with a method
\* value outside the closed set, is rejected before reaching the aggregation
\* core and leaves every counter, histogram and mapping unchanged: no step
\* that takes a request and starts a handler takes such a payload.
C15_MalformedRejected ==
    [][(budget' # budget /\ ~Rejected) =>
          \A w \in Workers : \A r \in Requests :
              (MissingField(r) \/ MethodOutside(r)) => ~Dispatch(w, r)]_vars

\* A request with a required field missing, or sent with an HTTP method
\* outside {GET, POST}, is answered with an error: no step that takes a
\* request and starts a handler takes such a request.
C15_BadRequestRejected ==
    (budget' # budget /\ ~Rejected) =>
        \A w \in Workers : \A r \in Requests :
            (MissingField(r) \/ r.http \notin {"GET", "POST"}) => ~Dispatch(w, r)

\* C15 (amended): a request whose body misses a required field, or whose HTTP
\* method is outside {GET, POST}, is rejected before reaching the aggregation
\* core and leaves every counter, histogram and mapping unchanged; the method
\* of a label set is set by the handler and a member "method" of the body is
\* not read; every label set stored in either family has a method in
\* {Get, Post} and all fields of its schema populated.
C15_Boundary ==
    /\ []C15_StoredLabelSets
    /\ [][C15_BadRequestRejected]_vars

\* One request has been answered and nothing else has happened: it was
\* rejected.
C15_Witness ==
    /\ budget = MaxReqs - 1
    /\ \A w \in Workers : pc[w] = "idle"
    /\ prev = NoDocument
    /\ requests = << >>
    /\ requests_hig = << >>
    /\ \A l \in AppLabels : issued[l] = 0

----------------------------------------------------------------------------
\* Properties of the handlers' effects.

\* The value of the counter of label set l, 0 when there is none.
Total(l) == IF l \in DOMAIN requests THEN requests[l] ELSE 0

\* The count operations that return in this step with label set l.
Counted(l) == {w \in Workers : pc[w] = "inc" /\ pc'[w] = "idle" /\ req[w].labels = l}

\* test_handler counts the fixed label set, script_handler the label set
\* with method Post and the fields of its body; in every step the counter
\* of a label set goes up by the count operations on it that return, one at
\* most, and no step of a script_handler changes a counter of method Get.
C16_CountEffect ==
    /\ \A w \in Workers :
          /\ test_handler(w) => req'[w].labels = TestLabels
          /\ \A info \in AppInfo :
                script_handler(w, info) =>
                    req'[w].labels = [method |-> "Post", script_name |-> info.script_name,
                                      namespace |-> info.namespace, app |-> info.app]
          /\ (req[w].handler = "script_handler" /\ pc'[w] # pc[w]) =>
                \A l \in AppLabels : l.method = "Get" => Total(l)' = Total(l)
    /\ \A l \in AppLabels :
          /\ Cardinality(Counted(l)) <= 1
          /\ Total(l)' = Total(l) + Cardinality(Counted(l))

\* C16: each count operation increments exactly one counter by exactly 1:
\* test_handler the fixed label set {Get, "test", "test-script", "test"},
\* script_handler the label set {Post, script_name, namespace, app} of its
\* body; no script_handler request, whatever its body, changes a counter
\* whose method is Get.
C16_CountOperations == [][C16_CountEffect]_vars

\* test_handler and a script_handler with the same script_name, namespace and
\* app have both returned: each of the two counters is 1.
C16_Witness ==
    /\ TestLabels \in DOMAIN requests
    /\ requests[TestLabels] = 1
    /\ [TestLabels EXCEPT !.method = "Post"] \in DOMAIN requests
    /\ requests[[TestLabels EXCEPT !.method = "Post"]] = 1
    /\ issued[TestLabels] = 1
    /\ \A w \in Workers : pc[w] = "idle"

\* The steps worker w takes in handler h, from taking the request to returning.
StepOf(w, h) == pc'[w] # pc[w] /\ (req[w].handler = h \/ req'[w].handler = h)

\* duration_handler observes the duration of its body on the label set with
\* method Post and the type, module and status of its body; when the
\* observation returns, the histogram of that label set has one observation
\* more and its sum is up by the value; no step of a duration_handler changes
\* another histogram or the requests family, and no step of a count handler
\* changes the latency family.
C17_LatencyEffect ==
    \A w \in Workers :
        /\ \A info \in LatencyInfo :
              duration_handler(w, info) =>
                  /\ req'[w].labels = [method |-> "Post", type |-> info.type,
                                       module |-> info.module, status |-> info.status]
                  /\ req'[w].value = info.duration
        /\ (pc[w] = "obs_bucket" /\ pc'[w] = "idle") =>
              /\ requests_hig'[req[w].labels].count = h0[w].count + 1
              /\ requests_hig'[req[w].labels].sum = h0[w].sum + req[w].value
        /\ StepOf(w, "duration_handler") =>
              LET r == IF req[w].handler = "duration_handler" THEN req[w] ELSE req'[w]
              IN  /\ requests' = requests
                  /\ \A l \in DOMAIN requests_hig \ {r.labels} :
                        requests_hig'[l] = requests_hig[l]
        /\ (StepOf(w, "test_handler") \/ StepOf(w, "script_handler")) =>
              requests_hig' = requests_hig

\* C17: a duration_handler operation records exactly one observation, of
\* value the body's duration, in the histogram of the label set {Post, type,
\* module, status} of the latency family and leaves every counter of the
\* requests family unchanged; count operations leave every histogram
\* unchanged.
C17_LatencyOperation == [][C17_LatencyEffect]_vars

\* An observation of 10000 and a test_handler have both returned.
C17_Witness ==
    /\ \E l \in DOMAIN requests_hig :
          /\ l.method = "Post"
          /\ observed[l][10000] = 1
          /\ requests_hig[l].count = 1
          /\ requests_hig[l].sum = 10000
    /\ TestLabels \in DOMAIN requests
    /\ requests[TestLabels] = 1
    /\ \A w \in Workers : pc[w] = "idle"

----------------------------------------------------------------------------
\* Properties of the encoder's walk.

\* Worker w is in encode and walks the map of the family registered under f.
Walking(w, f) == pc[w] = "encode" /\ fam[w] > 0 /\ registry[fam[w]].name = f

\* No step inserts a label set into a map an encoder walks.
C18_NoInsertWhileWalked ==
    \A i \in 1..Len(registry) :
        LET f == registry[i].name
        IN  DOMAIN FamilyMap(f)' # DOMAIN FamilyMap(f) =>
                ~ \E w \in Workers : Walking(w, f)

\* An operation that has found its entry in a map an encoder walks can go on:
\* the increment is not held up by the walk.
C18_IncrementNotBlocked ==
    \A w \in Workers : \A v \in Workers :
        (Walking(w, "requests") /\ pc[v] = "inc") => ENABLED inc_requests(v)

\* C18: during an encode pass a new label set is never inserted into a
\* family's map while the encoder iterates over that map: insertion and
\* iteration over one map are mutually exclusive, while increments of
\* entries that exist proceed during the iteration.
C18_InsertExcludesWalk ==
    /\ [][C18_NoInsertWhileWalked]_vars
    /\ []C18_IncrementNotBlocked

\* An encoder still walks the requests family and has written the line of a
\* label set with total 1; the counter has since gone to 2, and another
\* worker waits to insert a label set.
C18_Witness ==
    \E w \in Workers, v \in Workers :
        /\ Walking(w, "requests")
        /\ \E l \in DOMAIN requests :
              /\ requests[l] = 2
              /\ Len(LinesOf(body[w], "requests", l)) = 1
              /\ LinesOf(body[w], "requests", l)[1].total = 1
        /\ pc[v] = "get_write"
        /\ req[v].labels \notin DOMAIN requests

----------------------------------------------------------------------------
\* Properties of negative durations.

\* A worker that can take a request takes a duration_handler request with a
\* negative duration.
C19_NegativeAccepted ==
    \A w \in Workers :
        (pc[w] = "idle" /\ budget > 0) =>
            \A info \in LatencyInfo :
                info.duration < 0 => ENABLED duration_handler(w, info)

\* The observation of a negative value lowers the sum by its magnitude when
\* it is added, and when the observation returns the count is up by 1, the
\* sum down by the magnitude, the bucket of bound 10 up by 1 and the other
\* buckets as they were.
C19_NegativeEffect ==
    \A w \in Workers :
        /\ (pc[w] = "observe" /\ pc'[w] = "obs_count" /\ req[w].value < 0) =>
              /\ requests_hig'[req[w].labels].sum =
                    requests_hig[req[w].labels].sum + req[w].value
              /\ requests_hig'[req[w].labels].sum < requests_hig[req[w].labels].sum
        /\ (pc[w] = "obs_bucket" /\ pc'[w] = "idle" /\ req[w].value < 0) =>
              LET h == h0[w]
                  g == requests_hig'[req[w].labels]
              IN  /\ g.count = h.count + 1
                  /\ g.sum = h.sum + req[w].value
                  /\ g.buckets[1].upper_bound = Finite(10)
                  /\ g.buckets[1].value = h.buckets[1].value + 1
                  /\ \A j \in 2..Len(h.buckets) : g.buckets[j] = h.buckets[j]

\* C19: a latency observation with a negative duration is accepted, not
\* rejected: it is counted in the first bucket (upper bound 10), the count
\* goes up by 1 and the sum changes by the negative value, so the sum of a
\* histogram does not only grow.
C19_NegativeDuration ==
    /\ []C19_NegativeAccepted
    /\ [][C19_NegativeEffect]_vars

\* A histogram that held one observation of 7 is being given -3: its sum has
\* gone from 7 down to 4.
C19_Witness ==
    \E w \in Workers :
        /\ pc[w] = "obs_count"
        /\ req[w].value = -3
        /\ h0[w].sum = 7
        /\ h0[w].count = 1
        /\ requests_hig[req[w].labels].sum = 4

----------------------------------------------------------------------------
\* Properties of a scrape that runs while counters are incremented.

\* The total the document doc reports for label set l, 0 when it has no line
\* for l.
Reported(doc, l) ==
    LET ls == LinesOf(doc, "requests", l)
    IN  IF Len(ls) = 0 THEN 0 ELSE ls[1].total

\* The increments of l that had returned when the scrape of worker w started.
DoneAtStart(w, l) == IF l \in DOMAIN atstart[w] THEN atstart[w][l] ELSE 0

\* The document a scrape returns reports for every label set at least the
\* increments that had returned when the scrape started and at most the
\* increments started by the time it returns.
C20_SnapshotBounds ==
    \A w \in Workers :
        (pc[w] = "encode" /\ pc'[w] = "idle" /\ prev'.returned) =>
            \A l \in AppLabels :
                /\ Len(LinesOf(prev'.body, "requests", l)) <= 1
                /\ DoneAtStart(w, l) <= Reported(prev'.body, l)
                /\ Reported(prev'.body, l) <= issued[l]

\* Only metrics_handler holds the state's mutex, and while it is held a count
\* operation that looks its label set up or increments its counter can take
\* its step.
C20_NotSerialized ==
    /\ mutex \in Workers => req[mutex].handler = "metrics_handler"
    /\ \A v \in Workers :
          (mutex \in Workers /\ pc[v] \in {"get_read", "inc"}) => ENABLED CountStep(v)

\* C20: for every scrape that runs while counters are incremented and every
\* label set L, the total the document reports for L is at least the number
\* of increments of L that returned before the scrape started and at most
\* the number of increments of L started before the scrape returned (no line
\* counts as 0); increments and observations do not take the scrape's mutex
\* and are not serialized with the scrape.
C20_ConcurrentScrape ==
    /\ []C20_NotSerialized
    /\ [][C20_SnapshotBounds]_vars

\* A scrape that started after one increment of a label set has written the
\* total 2 for it, and a third increment is under way.
C20_Witness ==
    \E w \in Workers :
        /\ pc[w] = "encode"
        /\ mutex = w
        /\ \E l \in DOMAIN atstart[w] :
              /\ atstart[w][l] = 1
              /\ Len(LinesOf(body[w], "requests", l)) = 1
              /\ Reported(body[w], l) = 2
              /\ issued[l] = 3
              /\ InProgress(l) # {}
====
